---- MODULE Spec2Model ----
(***************************************************************************)
(* django-elasticsearch: the REST handler mixin (IndexableModelMixin) that *)
(* serves list/retrieve from the search index and falls back to the        *)
(* authoritative store, and the EsIndexable save/delete path with its      *)
(* index hooks.                                                            *)
(***************************************************************************)
EXTENDS Integers, FiniteSets, Sequences, TLC

\* Record identifiers range over 1..MaxId.
MaxId == 2

Ids == 1..MaxId
Handlers == {"h1", "h2"}
\* Callers of save()/delete() outside the handlers.
Callers == {"m1", "m2"}
Actors == Handlers \cup Callers
BackendStates == {"up", "down", "reject"}

VARIABLES
    store,        \* identifiers of the records in the authoritative store
    index,        \* identifiers of the documents in the search index
    backend,      \* condition of the search backend
    DEBUG,        \* settings.DEBUG
    AUTO_INDEX,   \* settings.ELASTICSEARCH_AUTO_INDEX
    lastCall,     \* outcome of the latest EsIndexable.save()/delete() call
    pending,      \* per actor: its save()/delete() between the store
                  \* operation and the signal
    es_failed,    \* IndexableModelMixin.es_failed, per handler instance
    paginate_by,  \* per handler: whether the view paginates its lists
    pc,           \* per handler: position inside dispatch
    request,      \* per handler: the request being dispatched
    run,          \* per handler: request cycles started in this dispatch
    exc,          \* per handler: the exception the except clause bound to e
    raised,       \* per handler: the exception dispatch propagated
    used,         \* per handler: data source taken by each step of the cycle
    resp,         \* per handler: the response r
    writes,       \* per handler: store mutations made by this dispatch
    object,       \* per handler: self.object, what update's lookup gave
    actor,        \* the handler (or "env"/"model") that took the last step
    migrate,      \* the framework version and the latest post_migrate event
    query         \* the latest list call of ElasticsearchFilterBackend

vars == <<store, index, backend, DEBUG, AUTO_INDEX, lastCall, pending, es_failed,
          paginate_by, pc, request, run, exc, raised, used, resp, writes,
          object, actor, migrate, query>>

shared == <<store, index, lastCall, pending>>
settings == <<DEBUG, AUTO_INDEX>>
events == <<migrate, query>>

-----------------------------------------------------------------------------
\* Exception classes of the elasticsearch client, of the framework and of
\* the store.

\* The classes an exception is an instance of.
Bases(e) ==
    CASE e = "ConnectionError" -> {"ConnectionError", "TransportError"}
      [] e = "RequestError"    -> {"RequestError", "TransportError"}
      [] e = "NotFoundError"   -> {"NotFoundError", "TransportError"}
      [] e = "IntegrityError"  -> {"IntegrityError", "DatabaseError"}
      [] OTHER                 -> {e}

isinstance(e, cls) == cls \in Bases(e)

\* str(e)
str(e) == e

\* What a call to the search backend raises in the backend's condition.
EsCall(b) ==
    CASE b = "down"   -> "ConnectionError"
      [] b = "reject" -> "RequestError"
      [] OTHER        -> "none"

-----------------------------------------------------------------------------
\* EsIndexable and the signal hooks (models.py).

Instance(id, flagged) == [id |-> id, _is_es_deserialized |-> flagged]

\* The guard with its test of the flag lost.
_raise_no_db_operation_unguarded(instance) == "none"

\* EsIndexable._raise_no_db_operation: the exception it raises, or "none".
_raise_no_db_operation(instance) ==
    IF instance._is_es_deserialized THEN "ValueError" ELSE "none"

\* ElasticsearchManager.do_index: upsert of the record's document.
do_index(instance, idx, b) ==
    IF EsCall(b) # "none"
    THEN [index |-> idx, exc |-> EsCall(b)]
    ELSE [index |-> idx \cup {instance.id}, exc |-> "none"]

\* ElasticsearchManager.delete: removal of the document; a missing document
\* is not an error.
es_delete(instance, idx, b) ==
    IF EsCall(b) # "none"
    THEN [index |-> idx, exc |-> EsCall(b)]
    ELSE [index |-> idx \ {instance.id}, exc |-> "none"]

\* es_save_callback returning before it indexes.
es_save_callback_skipped(indexable, instance, idx, b) ==
    [index |-> idx, exc |-> "none", indexOps |-> 0]

\* es_save_callback(sender, instance): indexable says whether sender is a
\* subclass of EsIndexable.
es_save_callback(indexable, instance, idx, b) ==
    IF ~indexable
    THEN [index |-> idx, exc |-> "none", indexOps |-> 0]
    ELSE LET r == do_index(instance, idx, b)
         IN  [index |-> r.index, exc |-> r.exc, indexOps |-> 1]

\* es_delete_callback(sender, instance)
es_delete_callback(indexable, instance, idx, b) ==
    IF ~indexable
    THEN [index |-> idx, exc |-> "none", indexOps |-> 0]
    ELSE LET r == es_delete(instance, idx, b)
         IN  [index |-> r.index, exc |-> r.exc, indexOps |-> 1]

\* post_save.send: the receivers connected when ELASTICSEARCH_AUTO_INDEX is on.
post_save(auto, instance, idx, b) ==
    IF auto
    THEN es_save_callback(TRUE, instance, idx, b)
    ELSE [index |-> idx, exc |-> "none", indexOps |-> 0]

\* post_delete.send
post_delete(auto, instance, idx, b) ==
    IF auto
    THEN es_delete_callback(TRUE, instance, idx, b)
    ELSE [index |-> idx, exc |-> "none", indexOps |-> 0]

\* The outcome of a save()/delete() call: the store and index it leaves, the
\* exception it raises, the store writes it committed and the index
\* operations it invoked.
Call(op, instance, st, idx, e, w, n) ==
    [op |-> op, id |-> instance.id, flagged |-> instance._is_es_deserialized,
     store |-> st, index |-> idx, exc |-> e, writes |-> w, indexOps |-> n]

Rejected(op, instance, st, idx, e) == Call(op, instance, st, idx, e, 0, 0)

\* Model.save up to its row write: the record is in the store.
save_write(instance, st) == st \cup {instance.id}

\* Model.delete, the commit that ends its transaction: the row, if there is
\* one, is gone from the store.
delete_commit(instance, st) == st \ {instance.id}

\* A save whose store write is undone when the post_save receiver raises.
save_signal_rolled_back(instance, had, st, idx, b, auto) ==
    LET h == post_save(auto, instance, idx, b)
    IN  IF h.exc # "none"
        THEN [store |-> IF had THEN st ELSE st \ {instance.id},
              index |-> h.index, exc |-> h.exc, writes |-> -1,
              indexOps |-> h.indexOps]
        ELSE [store |-> st, index |-> h.index, exc |-> "none", writes |-> 0,
              indexOps |-> h.indexOps]

\* Model.save from post_save.send to its return: the row is written already
\* and stays, whatever the receivers do.  had: the row existed before the
\* call; writes: the change to the count of store writes in effect.
save_signal(instance, had, st, idx, b, auto) ==
    LET h == post_save(auto, instance, idx, b)
    IN  [store |-> st, index |-> h.index, exc |-> h.exc, writes |-> 0,
         indexOps |-> h.indexOps]

\* EsIndexable.save, the whole call with nothing else running: the guard,
\* then Model.save.
save(instance, st, idx, b, auto) ==
    IF _raise_no_db_operation(instance) # "none"
    THEN Rejected("save", instance, st, idx, _raise_no_db_operation(instance))
    ELSE LET e == save_signal(instance, instance.id \in st,
                              save_write(instance, st), idx, b, auto)
         IN  Call("save", instance, e.store, e.index, e.exc, 1 + e.writes,
                  e.indexOps)

\* EsIndexable.delete, the whole call with nothing else running: the guard,
\* then Model.delete.  Model.delete removes the row and sends post_delete
\* inside one transaction and commits after the receivers, so an exception
\* raised by a receiver rolls the removal back.  It does not ask whether the
\* row exists.
delete(instance, st, idx, b, auto) ==
    IF _raise_no_db_operation(instance) # "none"
    THEN Rejected("delete", instance, st, idx, _raise_no_db_operation(instance))
    ELSE LET h == post_delete(auto, instance, idx, b)
         IN  IF h.exc # "none"
             THEN Call("delete", instance, st, h.index, h.exc, 0, h.indexOps)
             ELSE Call("delete", instance, delete_commit(instance, st),
                       h.index, "none", 1, h.indexOps)

\* A call under way.  op: "save" after the row write and before post_save;
\* "delete" inside the transaction, the row removal issued and not visible
\* to others, before post_delete; "commit" after post_delete and before the
\* commit.  had: the row existed when the call began; indexOps: the index
\* operations made so far; raced: another call on the same record was under
\* way at some moment of this one.
NoPending ==
    [op |-> "none", id |-> 0, flagged |-> FALSE, had |-> FALSE,
     indexOps |-> 0, raced |-> FALSE]

\* Another actor has a call on the record under way.
Contended(a, id) ==
    \E o \in Actors \ {a} : pending[o].op # "none" /\ pending[o].id = id

\* pending once actor a has begun op on the instance.
Begin(a, op, instance) ==
    [o \in Actors |->
        IF o = a
        THEN [op |-> op, id |-> instance.id,
              flagged |-> instance._is_es_deserialized,
              had |-> instance.id \in store, indexOps |-> 0,
              raced |-> Contended(a, instance.id)]
        ELSE IF pending[o].op # "none" /\ pending[o].id = instance.id
        THEN [pending[o] EXCEPT !.raced = TRUE]
        ELSE pending[o]]

\* The records whose latest finished call ran together with another call on
\* the same record, once the call of actor a has finished.
RacedAfter(a) ==
    IF pending[a].raced THEN lastCall.raced \cup {pending[a].id}
    ELSE lastCall.raced \ {pending[a].id}

UnderWay(id) == \E a \in Actors : pending[a].op # "none" /\ pending[a].id = id

Quiescent == \A a \in Actors : pending[a].op = "none"

\* What lastCall keeps of a call: everything but the resulting stores, a bit
\* that flips on every call, and raced, the records whose latest finished
\* call ran together with another call on the same record.
Outcome(c, raced) ==
    [op |-> c.op, id |-> c.id, flagged |-> c.flagged, exc |-> c.exc,
     writes |-> c.writes, indexOps |-> c.indexOps, tick |-> 1 - lastCall.tick,
     raced |-> raced]

NoCall ==
    [op |-> "none", id |-> 0, flagged |-> FALSE, exc |-> "none", writes |-> 0,
     indexOps |-> 0, tick |-> 0, raced |-> {}]

\* The model classes registered with the application, and those of them that
\* subclass EsIndexable.
AppModels == {"Article", "Comment", "Session"}
IndexableModels == {"Article", "Comment"}

issubclass_EsIndexable(model) == model \in IndexableModels

\* Values of django.get_version(), character by character.
Versions ==
    {<<"1", ".", "6">>, <<"1", ".", "7">>, <<"1", ".", "8", ".", "4">>,
     <<"1", ".", "9">>, <<"1", ".", "1", "0">>, <<"2", ".", "0">>,
     <<"3", ".", "2">>, <<"4", ".", "2", ".", "7">>}

Digits == <<"0", "1", "2", "3", "4", "5", "6", "7", "8", "9">>

\* int(c) of a digit character
int(c) == CHOOSE n \in 0..9 : Digits[n + 1] = c

\* The created_models argument: <<>> when it is not supplied (None), <<S>>
\* when the list S is supplied.
CreatedModels == {<<>>} \cup {<<S>> : S \in SUBSET AppModels}

\* es_syncdb_callback: the models on which create_index is invoked.
\* get_version()[2] is the third character of the version string.
es_syncdb_callback(version, sender_models, created_models) ==
    LET created == IF created_models = <<>> THEN {} ELSE created_models[1]
        models  == IF int(version[3]) > 6 THEN sender_models ELSE created
    IN  {model \in models : issubclass_EsIndexable(model)}

\* post_migrate.send: the receiver connected when ELASTICSEARCH_AUTO_INDEX is
\* on.
post_migrate(auto, version, sender_models, created_models) ==
    IF auto THEN es_syncdb_callback(version, sender_models, created_models)
    ELSE {}

NoMigrate(version) ==
    [version |-> version, fired |-> FALSE, created_models |-> <<>>,
     indexes |-> {}]

-----------------------------------------------------------------------------
\* Serializers and responses (restframework2.py).

NoUse ==
    [qs |-> "none", filt |-> "none", ser |-> "none", pag |-> "none",
     facets |-> "none"]

NoResp ==
    [status |-> 0, isdict |-> FALSE, keys |-> {}, filter_status |-> "",
     filter_fail_cause |-> "", results |-> {}, origin |-> "none"]

\* Response(data): isdict is isinstance(r.data, dict), keys the keys of a
\* mapping body, results the records it carries, origin where they came from.
Response(status, isdict, keys, results, origin) ==
    [status |-> status, isdict |-> isdict, keys |-> keys,
     filter_status |-> "", filter_fail_cause |-> "", results |-> results,
     origin |-> origin]

\* The data source a serializer class stands for.
SourceOf(cls) ==
    IF cls \in {"FakeSerializer", "ElasticsearchPaginationSerializer"}
    THEN "index" ELSE "store"

\* FakeSerializer.data: a list is wrapped into {count, results}; a single
\* object is returned as it is (the document, a mapping).
FakeSerializer_data(many) ==
    [isdict |-> TRUE, keys |-> IF many THEN {"count", "results"} ELSE {"id"}]

\* The model serializer's data: a list for many=True, a mapping otherwise.
ModelSerializer_data(many) ==
    [isdict |-> ~many, keys |-> IF many THEN {} ELSE {"id"}]

\* ElasticsearchPaginationSerializer.data, and the framework's
\* PaginationSerializer.data it defers to: the page envelope.
ElasticsearchPaginationSerializer_data ==
    [isdict |-> TRUE, keys |-> {"count", "previous", "next", "results"}]

serializer_data(cls, many) ==
    CASE cls = "FakeSerializer"  -> FakeSerializer_data(many)
      [] cls = "ModelSerializer" -> ModelSerializer_data(many)
      [] OTHER                   -> ElasticsearchPaginationSerializer_data

-----------------------------------------------------------------------------
\* ElasticsearchFilterBackend and IndexableModelMixin (restframework2.py).

\* Request parameters are a function from the names present to their values;
\* a value is a sequence of tokens, "," separating the fields of an ordering.
EmptyMap == [k \in {} |-> <<>>]

NoParams == EmptyMap

ParamKeys == {"search", "q", "ordering", "status", "secret"}

ParamValues(k) ==
    CASE k = "ordering" -> {<<>>, <<"-created">>, <<"name", ",", "id">>}
      [] k = "status"   -> {<<"active">>}
      [] k = "secret"   -> {<<"1">>}
      [] OTHER          -> {<<"django">>}

AllParams ==
    {p \in UNION {[K -> UNION {ParamValues(k) : k \in ParamKeys}] :
                     K \in SUBSET ParamKeys} :
        \A k \in DOMAIN p : p[k] \in ParamValues(k)}

\* A view attribute is <<>> when the view does not declare it and <<v>> when
\* it declares the value v.
NoView == [search_param |-> <<>>, filter_fields |-> <<>>, ordering |-> <<>>]

AllViews ==
    [search_param  : {<<>>, <<"q">>},
     filter_fields : {<<>>, <<{}>>, <<{"status"}>>, <<{"status", "secret"}>>},
     ordering      : {<<>>, << <<"name">> >>}]

\* The model's Meta ordering, <<>> when it declares none.
MetaOrderings == {<<>>, <<"id">>}

getattr(attribute, default) ==
    IF attribute = <<>> THEN default ELSE attribute[1]

\* api_settings.SEARCH_PARAM and api_settings.ORDERING_PARAM
SEARCH_PARAM == "search"
ORDERING_PARAM == "ordering"

\* The queryset model.es.search("") returns: no term, no filter, the model's
\* default ordering.
es_search(meta_ordering) ==
    [term |-> <<>>, filters |-> EmptyMap, ordering |-> meta_ordering]

\* EsQueryset.query, filter and order_by
qs_query(qs, term) == [qs EXCEPT !.term = term]

qs_filter(qs, filters) ==
    [qs EXCEPT !.filters =
        [k \in DOMAIN qs.filters \cup DOMAIN filters |->
            IF k \in DOMAIN filters THEN filters[k] ELSE qs.filters[k]]]

qs_order_by(qs, ordering) == [qs EXCEPT !.ordering = ordering]

\* params.split(','), each field stripped
split(value) == SelectSeq(value, LAMBDA t : t # ",")

\* OrderingFilter.get_ordering(request): None (<<>>) without the parameter or
\* with an empty one.
get_ordering(params) ==
    IF ORDERING_PARAM \in DOMAIN params /\ params[ORDERING_PARAM] # <<>>
    THEN split(params[ORDERING_PARAM]) ELSE <<>>

\* OrderingFilter.get_default_ordering(view)
get_default_ordering(view) == getattr(view.ordering, <<>>)

\* filter_queryset, list: query = request.QUERY_PARAMS.get(search_param, '')
list_term(params, view) ==
    LET search_param == getattr(view.search_param, SEARCH_PARAM)
    IN  IF search_param \in DOMAIN params THEN params[search_param] ELSE <<>>

\* The ordering resolved with the view's default tried first.
list_ordering_view_first(params, view) ==
    IF get_default_ordering(view) # <<>> THEN get_default_ordering(view)
    ELSE get_ordering(params)

\* filter_queryset, list: the request's ordering, else the view's default.
list_ordering(params, view) ==
    IF get_ordering(params) # <<>> THEN get_ordering(params)
    ELSE get_default_ordering(view)

\* The filters taken from the request without the allowlist test.
list_filters_unrestricted(params, view) == params

\* filter_queryset, list: the request parameters named in filter_fields.
list_filters(params, view) ==
    LET filterable == getattr(view.filter_fields, {})
    IN  [k \in {k \in DOMAIN params : k \in filterable} |-> params[k]]

\* filter_queryset, list: q = queryset.query(query).filter(**filters), ordered
\* when an ordering was resolved.
list_query(params, view, queryset) ==
    LET q == qs_filter(qs_query(queryset, list_term(params, view)),
                       list_filters(params, view))
    IN  IF list_ordering(params, view) # <<>>
        THEN qs_order_by(q, list_ordering(params, view))
        ELSE q

\* The filter backend's position: the request at hand, the view and model it
\* serves, and q, the query last emitted.
NoQuery(params, view, meta_ordering) ==
    [params |-> params, view |-> view, meta_ordering |-> meta_ordering,
     done |-> FALSE, q |-> es_search(<<>>)]

\* ElasticsearchFilterBackend.filter_queryset: for list the index query is
\* built; otherwise the inherited ordering filter is applied to the queryset
\* it was given.  qs is the data source of that queryset.
ElasticsearchFilterBackend_filter_queryset(action, qs) ==
    IF action = "list" THEN "index" ELSE qs

\* get_object without its except clause.
get_object_untranslated(e) == e

\* IndexableModelMixin.get_object: NotFoundError becomes Http404.
get_object(e) ==
    IF isinstance(e, "NotFoundError") THEN "Http404" ELSE e

\* IndexableModelMixin.get_serializer_class
get_serializer_class(action, failed) ==
    IF action \in {"list", "retrieve"} /\ ~failed
    THEN "FakeSerializer" ELSE "ModelSerializer"

\* get_pagination_serializer without its test of es_failed.
get_pagination_serializer_unconditional(failed) ==
    "ElasticsearchPaginationSerializer"

\* IndexableModelMixin.get_pagination_serializer
get_pagination_serializer(failed) ==
    IF ~failed THEN "ElasticsearchPaginationSerializer"
    ELSE "PaginationSerializer"

\* IndexableModelMixin.get_queryset: the data source of the queryset.
get_queryset(action, failed) ==
    IF action \in {"list", "retrieve"} /\ ~failed THEN "index" ELSE "store"

\* IndexableModelMixin.filter_queryset: the default filter backends over the
\* store once failed, the view's filter_backends otherwise.
filter_queryset(action, failed, qs) ==
    IF failed THEN "store"
    ELSE ElasticsearchFilterBackend_filter_queryset(action, qs)

\* IndexableModelMixin.list, after super().list(): unless the handler has
\* failed, the facets and the suggestions of the index result are attached,
\* each when the result has a non-empty one (facets, suggestions).
list_attach(r, failed, facets, suggestions) ==
    IF ~failed /\ r.isdict
    THEN [r EXCEPT !.keys = @ \cup (IF facets THEN {"facets"} ELSE {})
                              \cup (IF suggestions THEN {"suggestions"}
                                    ELSE {})]
    ELSE r

list_source(failed) == IF ~failed THEN "index" ELSE "none"

\* dispatch, the except clause: which exceptions it catches.
Caught(e) == isinstance(e, "ConnectionError") \/ isinstance(e, "TransportError")

\* es_failed kept as one flag shared by all handler instances.
MarkFailed_shared(flags, h) == [g \in DOMAIN flags |-> TRUE]

\* dispatch, the except clause: self.es_failed = True
MarkFailed(flags, h) == [flags EXCEPT ![h] = TRUE]

\* dispatch, the except clause: the failure cause on the re-run's response.
fail_cause(r, debug, e) ==
    IF debug /\ r.isdict
    THEN [r EXCEPT !.keys = @ \cup {"filter_fail_cause"},
                   !.filter_fail_cause = str(e)]
    ELSE r

FILTER_STATUS_MESSAGE_OK == "Ok"
FILTER_STATUS_MESSAGE_FAILED == "Failed"

\* dispatch, the status marker.
filter_status(r, action, failed) ==
    IF r.isdict /\ action \in {"list", "retrieve"}
    THEN [r EXCEPT !.keys = @ \cup {"filter_status"},
                   !.filter_status = IF failed THEN FILTER_STATUS_MESSAGE_FAILED
                                      ELSE FILTER_STATUS_MESSAGE_OK]
    ELSE r

\* The framework's handling of Http404 inside its dispatch: a 404 response
\* whose body is a mapping.
NotFoundResponse == Response(404, TRUE, {"detail"}, {}, "none")

-----------------------------------------------------------------------------
\* The state machine.

NoRequest == [action |-> "none", pk |-> 0]

Requests ==
    {[action |-> a, pk |-> 0] : a \in {"list", "create"}}
    \cup {[action |-> a, pk |-> i] : a \in {"retrieve", "update", "destroy"},
                                      i \in Ids}

\* The first step of the request cycle of an action.
Entry(action) ==
    CASE action = "list"   -> "queryset"
      [] action = "create" -> "perform"
      [] OTHER             -> "object"

Busy(h) == pc[h] \notin {"idle", "done", "raised"}

\* The identifier the store gives a new record.
FreshId(st) == CHOOSE i \in Ids \ st : \A j \in Ids \ st : i <= j

InitBase ==
    /\ store \in SUBSET Ids
    /\ index \in SUBSET Ids
    /\ backend \in BackendStates
    /\ DEBUG \in BOOLEAN
    /\ AUTO_INDEX \in BOOLEAN
    /\ lastCall = NoCall
    /\ pending = [a \in Actors |-> NoPending]
    /\ es_failed = [h \in Handlers |-> FALSE]
    /\ paginate_by \in [Handlers -> BOOLEAN]
    /\ pc = [h \in Handlers |-> "idle"]
    /\ request = [h \in Handlers |-> NoRequest]
    /\ run = [h \in Handlers |-> 0]
    /\ exc = [h \in Handlers |-> "none"]
    /\ raised = [h \in Handlers |-> "none"]
    /\ used = [h \in Handlers |-> NoUse]
    /\ resp = [h \in Handlers |-> NoResp]
    /\ writes = [h \in Handlers |-> 0]
    /\ object = [h \in Handlers |-> "unset"]
    /\ actor = "none"

Init ==
    /\ InitBase
    /\ migrate = NoMigrate(<<"1", ".", "7">>)
    /\ query = NoQuery(NoParams, NoView, <<>>)

\* IndexableModelMixin.__init__: a new handler instance replaces a finished one.
Construct(h, paginated) ==
    /\ pc[h] \in {"done", "raised"}
    /\ es_failed' = [es_failed EXCEPT ![h] = FALSE]
    /\ paginate_by' = [paginate_by EXCEPT ![h] = paginated]
    /\ pc' = [pc EXCEPT ![h] = "idle"]
    /\ request' = [request EXCEPT ![h] = NoRequest]
    /\ run' = [run EXCEPT ![h] = 0]
    /\ exc' = [exc EXCEPT ![h] = "none"]
    /\ raised' = [raised EXCEPT ![h] = "none"]
    /\ used' = [used EXCEPT ![h] = NoUse]
    /\ resp' = [resp EXCEPT ![h] = NoResp]
    /\ writes' = [writes EXCEPT ![h] = 0]
    /\ actor' = h
    /\ UNCHANGED events
    /\ object' = [object EXCEPT ![h] = "unset"]
    /\ UNCHANGED <<shared, backend, settings>>

\* dispatch is entered: the first request cycle starts.
Dispatch(h, rq) ==
    /\ ~Busy(h)
    /\ rq.action = "create" =>
         Cardinality(store)
           + 2 * (1 + Cardinality({g \in Handlers \ {h} :
                        Busy(g) /\ request[g].action = "create"})) <= MaxId
    /\ pc' = [pc EXCEPT ![h] = Entry(rq.action)]
    /\ request' = [request EXCEPT ![h] = rq]
    /\ run' = [run EXCEPT ![h] = 1]
    /\ exc' = [exc EXCEPT ![h] = "none"]
    /\ raised' = [raised EXCEPT ![h] = "none"]
    /\ used' = [used EXCEPT ![h] = NoUse]
    /\ resp' = [resp EXCEPT ![h] = NoResp]
    /\ writes' = [writes EXCEPT ![h] = 0]
    /\ actor' = h
    /\ UNCHANGED events
    /\ UNCHANGED object
    /\ UNCHANGED <<shared, backend, settings, es_failed, paginate_by>>

\* An exception of either cycle handed to the except clause.
Raise_retried(h, e) ==
    /\ pc' = [pc EXCEPT ![h] = "except"]
    /\ exc' = [exc EXCEPT ![h] = e]
    /\ UNCHANGED raised

\* An exception leaves the request cycle: the first cycle runs inside the try
\* block, the second inside the except clause.
Raise(h, e) ==
    IF run[h] = 1
    THEN /\ pc' = [pc EXCEPT ![h] = "except"]
         /\ exc' = [exc EXCEPT ![h] = e]
         /\ UNCHANGED raised
    ELSE /\ pc' = [pc EXCEPT ![h] = "raised"]
         /\ raised' = [raised EXCEPT ![h] = e]
         /\ UNCHANGED exc

\* The request cycle returns response r to dispatch.
Return(h, r) ==
    /\ pc' = [pc EXCEPT ![h] = "finish"]
    /\ resp' = [resp EXCEPT ![h] = r]
    /\ UNCHANGED <<exc, raised>>

\* list: self.object_list = self.filter_queryset(self.get_queryset())
ListQueryset(h) ==
    /\ pc[h] = "queryset"
    /\ LET a  == request[h].action
           qs == get_queryset(a, es_failed[h])
           f  == filter_queryset(a, es_failed[h], qs)
       IN  used' = [used EXCEPT ![h].qs = qs, ![h].filt = f]
    /\ pc' = [pc EXCEPT ![h] = "page"]
    /\ actor' = h
    /\ UNCHANGED events
    /\ UNCHANGED object
    /\ UNCHANGED <<shared, backend, settings, es_failed, paginate_by,
                   request, run, exc, raised, resp, writes>>

\* list: the queryset is evaluated (paginate_queryset, serializer.data) and
\* the response is built.
ListPage(h) ==
    /\ pc[h] = "page"
    /\ LET a   == request[h].action
           src == used[h].filt
           e   == IF src = "index" THEN EsCall(backend) ELSE "none"
           cls == IF paginate_by[h]
                  THEN get_pagination_serializer(es_failed[h])
                  ELSE get_serializer_class(a, es_failed[h])
           d   == serializer_data(cls, TRUE)
           rs  == IF src = "index" THEN index ELSE store
       IN  IF e # "none"
           THEN /\ Raise(h, e)
                /\ UNCHANGED <<used, resp>>
           ELSE /\ pc' = [pc EXCEPT ![h] = "facets"]
                /\ resp' = [resp EXCEPT
                              ![h] = Response(200, d.isdict, d.keys, rs, src)]
                /\ used' = IF paginate_by[h]
                           THEN [used EXCEPT ![h].pag = SourceOf(cls)]
                           ELSE [used EXCEPT ![h].ser = SourceOf(cls)]
                /\ UNCHANGED <<exc, raised>>
    /\ actor' = h
    /\ UNCHANGED events
    /\ UNCHANGED object
    /\ UNCHANGED <<shared, backend, settings, es_failed, paginate_by,
                   request, run, writes>>

\* IndexableModelMixin.list, the part after super().list()
ListFacets(h, facets, suggestions) ==
    /\ pc[h] = "facets"
    /\ used' = [used EXCEPT ![h].facets = list_source(es_failed[h])]
    /\ Return(h, list_attach(resp[h], es_failed[h], facets, suggestions))
    /\ actor' = h
    /\ UNCHANGED events
    /\ UNCHANGED object
    /\ UNCHANGED <<shared, backend, settings, es_failed, paginate_by,
                   request, run, writes>>

\* retrieve, update, destroy: get_object looks the record up in
\* filter_queryset(get_queryset()).  A missing record is a 404, except for
\* update (PUT), whose get_object_or_none then gives None; update keeps what
\* the lookup gave in self.object.
GetObject(h) ==
    /\ pc[h] = "object"
    /\ LET a   == request[h].action
           pk  == request[h].pk
           qs  == get_queryset(a, es_failed[h])
           src == filter_queryset(a, es_failed[h], qs)
           e   == IF src = "index"
                  THEN IF EsCall(backend) # "none" THEN EsCall(backend)
                       ELSE IF pk \notin index THEN "NotFoundError" ELSE "none"
                  ELSE IF pk \notin store /\ a # "update"
                       THEN "Http404" ELSE "none"
           g   == get_object(e)
       IN  /\ used' = [used EXCEPT ![h].qs = qs, ![h].filt = src]
           /\ object' = IF a = "update" /\ g = "none"
                        THEN [object EXCEPT
                                ![h] = IF pk \in store THEN "found"
                                       ELSE "None"]
                        ELSE object
           /\ CASE g = "none" ->
                     /\ pc' = [pc EXCEPT
                                 ![h] = IF a = "retrieve" THEN "serialize"
                                        ELSE "perform"]
                     /\ UNCHANGED <<resp, exc, raised>>
                [] g = "Http404" -> Return(h, NotFoundResponse)
                [] OTHER ->
                     /\ Raise(h, g)
                     /\ UNCHANGED resp
    /\ actor' = h
    /\ UNCHANGED events
    /\ UNCHANGED <<shared, backend, settings, es_failed, paginate_by,
                   request, run, writes>>

\* retrieve: the object is serialized.
Serialize(h) ==
    /\ pc[h] = "serialize"
    /\ LET a   == request[h].action
           cls == get_serializer_class(a, es_failed[h])
           d   == serializer_data(cls, FALSE)
       IN  /\ used' = [used EXCEPT ![h].ser = SourceOf(cls)]
           /\ Return(h, Response(200, d.isdict, d.keys, {request[h].pk},
                                 used[h].filt))
    /\ actor' = h
    /\ UNCHANGED events
    /\ UNCHANGED object
    /\ UNCHANGED <<shared, backend, settings, es_failed, paginate_by,
                   request, run, writes>>

\* The exception Model.save raises for update before any write: update saves
\* with force_insert when its lookup gave None and with force_update when it
\* gave the record, and the store may have changed since the lookup.
forced_save(a, obj, pk, st) ==
    IF a # "update" THEN "none"
    ELSE IF obj = "None" /\ pk \in st THEN "IntegrityError"
    ELSE IF obj = "found" /\ pk \notin st THEN "DatabaseError"
    ELSE "none"

\* create, update: the object is saved; destroy: it is deleted.  An update
\* whose lookup found no record creates it and answers 201.
Perform(h) ==
    /\ pc[h] = "perform"
    /\ request[h].action = "create" => Ids \ store # {}
    /\ LET a   == request[h].action
           pk  == IF a = "create" THEN FreshId(store) ELSE request[h].pk
           obj == Instance(pk, FALSE)
           e   == forced_save(a, object[h], pk, store)
       IN  IF e # "none"
           THEN /\ Raise(h, e)
                /\ UNCHANGED <<store, writes, pending>>
           ELSE /\ pc' = [pc EXCEPT ![h] = "signal"]
                /\ UNCHANGED <<exc, raised>>
                /\ IF a = "destroy"
                   THEN /\ pending' = Begin(h, "delete", obj)
                        /\ UNCHANGED <<store, writes>>
                   ELSE /\ pending' = Begin(h, "save", obj)
                        /\ store' = save_write(obj, store)
                        /\ writes' = [writes EXCEPT ![h] = @ + 1]
    /\ actor' = h
    /\ UNCHANGED events
    /\ UNCHANGED object
    /\ UNCHANGED <<index, lastCall, backend, settings, es_failed, paginate_by,
                   request, run, used, resp>>

\* The post_save / post_delete receivers run.  A save then returns and create
\* or update answers with the serialized object; a delete goes on to its
\* commit, or is rolled back when the receiver raised.
Signal(h) ==
    /\ pc[h] = "signal"
    /\ LET a   == request[h].action
           p   == pending[h]
           obj == Instance(p.id, p.flagged)
           cls == get_serializer_class(a, es_failed[h])
           d   == serializer_data(cls, FALSE)
       IN  IF p.op = "delete"
           THEN LET e == post_delete(AUTO_INDEX, obj, index, backend)
                IN  /\ index' = e.index
                    /\ UNCHANGED <<store, writes, used>>
                    /\ IF e.exc # "none"
                       THEN /\ Raise(h, e.exc)
                            /\ pending' = [pending EXCEPT ![h] = NoPending]
                            /\ lastCall' = [lastCall EXCEPT
                                              !.raced = RacedAfter(h)]
                            /\ UNCHANGED resp
                       ELSE /\ pc' = [pc EXCEPT ![h] = "commit"]
                            /\ pending' = [pending EXCEPT
                                             ![h].op = "commit",
                                             ![h].indexOps = e.indexOps]
                            /\ UNCHANGED <<lastCall, resp, exc, raised>>
           ELSE LET e == save_signal(obj, p.had, store, index, backend,
                                     AUTO_INDEX)
                IN  /\ store' = e.store
                    /\ index' = e.index
                    /\ writes' = [writes EXCEPT ![h] = @ + e.writes]
                    /\ pending' = [pending EXCEPT ![h] = NoPending]
                    /\ lastCall' = [lastCall EXCEPT !.raced = RacedAfter(h)]
                    /\ IF e.exc # "none"
                       THEN /\ Raise(h, e.exc)
                            /\ UNCHANGED <<used, resp>>
                       ELSE /\ used' = [used EXCEPT ![h].ser = SourceOf(cls)]
                            /\ Return(h, Response(IF a = "create"
                                                     \/ object[h] = "None"
                                                  THEN 201 ELSE 200,
                                                  d.isdict, d.keys, {p.id},
                                                  "store"))
    /\ actor' = h
    /\ UNCHANGED events
    /\ UNCHANGED object
    /\ UNCHANGED <<backend, settings, es_failed, paginate_by, request, run>>

\* The transaction of the delete commits and destroy answers 204.
Commit(h) ==
    /\ pc[h] = "commit"
    /\ store' = delete_commit(Instance(pending[h].id, FALSE), store)
    /\ writes' = [writes EXCEPT ![h] = @ + 1]
    /\ pending' = [pending EXCEPT ![h] = NoPending]
    /\ lastCall' = [lastCall EXCEPT !.raced = RacedAfter(h)]
    /\ Return(h, Response(204, FALSE, {}, {}, "none"))
    /\ actor' = h
    /\ UNCHANGED events
    /\ UNCHANGED object
    /\ UNCHANGED <<index, backend, settings, es_failed, paginate_by, request,
                   run, used>>


\* dispatch, the except clause up to the second super().dispatch().
Except(h) ==
    /\ pc[h] = "except"
    /\ IF Caught(exc[h])
       THEN /\ es_failed' = MarkFailed(es_failed, h)
            /\ run' = [run EXCEPT ![h] = @ + 1]
            /\ used' = [used EXCEPT ![h] = NoUse]
            /\ pc' = [pc EXCEPT ![h] = Entry(request[h].action)]
            /\ UNCHANGED raised
       ELSE /\ pc' = [pc EXCEPT ![h] = "raised"]
            /\ raised' = [raised EXCEPT ![h] = exc[h]]
            /\ UNCHANGED <<es_failed, run, used>>
    /\ actor' = h
    /\ UNCHANGED events
    /\ UNCHANGED object
    /\ UNCHANGED <<shared, backend, settings, paginate_by, request, exc, resp, writes>>

\* dispatch, from the return of the cycle that gave r to "return r".
Finish(h) ==
    /\ pc[h] = "finish"
    /\ LET r1 == IF run[h] = 2 THEN fail_cause(resp[h], DEBUG, exc[h])
                 ELSE resp[h]
       IN  resp' = [resp EXCEPT
                      ![h] = filter_status(r1, request[h].action, es_failed[h])]
    /\ pc' = [pc EXCEPT ![h] = "done"]
    /\ actor' = h
    /\ UNCHANGED events
    /\ UNCHANGED object
    /\ UNCHANGED <<shared, backend, settings, es_failed, paginate_by,
                   request, run, exc, raised, used, writes>>

\* EsIndexable.save() called on a record outside any handler: the guard and
\* the row write.
ModelSave(c, id, flagged) ==
    /\ pending[c].op = "none"
    /\ LET instance == Instance(id, flagged)
           e        == _raise_no_db_operation(instance)
       IN  IF e # "none"
           THEN /\ lastCall' = Outcome(Rejected("save", instance, store,
                                                index, e), lastCall.raced)
                /\ UNCHANGED <<store, pending>>
           ELSE /\ store' = save_write(instance, store)
                /\ pending' = Begin(c, "save", instance)
                /\ UNCHANGED lastCall
    /\ actor' = "model"
    /\ UNCHANGED events
    /\ UNCHANGED object
    /\ UNCHANGED <<index, backend, settings, es_failed, paginate_by, pc,
                   request, run, exc, raised, used, resp, writes>>

\* EsIndexable.delete() called on a record outside any handler, whether or
\* not the store holds it: the guard, then Model.delete opens its transaction
\* and issues the row removal.
ModelDelete(c, id, flagged) ==
    /\ pending[c].op = "none"
    /\ LET instance == Instance(id, flagged)
           e        == _raise_no_db_operation(instance)
       IN  IF e # "none"
           THEN /\ lastCall' = Outcome(Rejected("delete", instance, store,
                                                index, e), lastCall.raced)
                /\ UNCHANGED pending
           ELSE /\ pending' = Begin(c, "delete", instance)
                /\ UNCHANGED lastCall
    /\ actor' = "model"
    /\ UNCHANGED events
    /\ UNCHANGED object
    /\ UNCHANGED <<store, index, backend, settings, es_failed, paginate_by,
                   pc, request, run, exc, raised, used, resp, writes>>

\* The post_save / post_delete receivers of that call run.  A save then
\* returns or raises; a delete goes on to its commit, or is rolled back and
\* raises when the receiver raised.
ModelSignal(c) ==
    /\ pending[c].op \in {"save", "delete"}
    /\ LET p        == pending[c]
           instance == Instance(p.id, p.flagged)
       IN  IF p.op = "delete"
           THEN LET e == post_delete(AUTO_INDEX, instance, index, backend)
                IN  /\ index' = e.index
                    /\ UNCHANGED store
                    /\ IF e.exc # "none"
                       THEN /\ lastCall' =
                                 Outcome(Call("delete", instance, store,
                                              e.index, e.exc, 0, e.indexOps),
                                         RacedAfter(c))
                            /\ pending' = [pending EXCEPT ![c] = NoPending]
                       ELSE /\ pending' = [pending EXCEPT
                                             ![c].op = "commit",
                                             ![c].indexOps = e.indexOps]
                            /\ UNCHANGED lastCall
           ELSE LET e == save_signal(instance, p.had, store, index, backend,
                                     AUTO_INDEX)
                IN  /\ store' = e.store
                    /\ index' = e.index
                    /\ lastCall' =
                         Outcome(Call("save", instance, e.store, e.index,
                                      e.exc, 1 + e.writes, e.indexOps),
                                 RacedAfter(c))
                    /\ pending' = [pending EXCEPT ![c] = NoPending]
    /\ actor' = "model"
    /\ UNCHANGED events
    /\ UNCHANGED object
    /\ UNCHANGED <<backend, settings, es_failed, paginate_by, pc,
                   request, run, exc, raised, used, resp, writes>>

\* The transaction of that delete commits and the call returns.
ModelCommit(c) ==
    /\ pending[c].op = "commit"
    /\ LET p        == pending[c]
           instance == Instance(p.id, p.flagged)
       IN  /\ store' = delete_commit(instance, store)
           /\ lastCall' = Outcome(Call("delete", instance,
                                       delete_commit(instance, store), index,
                                       "none", 1, p.indexOps),
                                  RacedAfter(c))
    /\ pending' = [pending EXCEPT ![c] = NoPending]
    /\ actor' = "model"
    /\ UNCHANGED events
    /\ UNCHANGED object
    /\ UNCHANGED <<index, backend, settings, es_failed, paginate_by, pc,
                   request, run, exc, raised, used, resp, writes>>

\* The search backend goes down, starts rejecting queries, or comes back.
BackendChange(b) ==
    /\ b # backend
    /\ backend' = b
    /\ actor' = "env"
    /\ UNCHANGED events
    /\ UNCHANGED object
    /\ UNCHANGED <<shared, settings, es_failed, paginate_by, pc,
                   request, run, exc, raised, used, resp, writes>>

\* The framework signals that the migration of the application is complete.
PostMigrate(created_models) ==
    /\ migrate' = [version |-> migrate.version, fired |-> TRUE,
                   created_models |-> created_models,
                   indexes |-> post_migrate(AUTO_INDEX, migrate.version,
                                            AppModels, created_models)]
    /\ actor' = "model"
    /\ UNCHANGED <<shared, backend, settings, es_failed, paginate_by, pc,
                   request, run, exc, raised, used, resp, writes, object, query>>

\* A list request reaches the filter backend of the view.
ListRequest(params) ==
    /\ query' = [query EXCEPT !.params = params, !.done = FALSE]
    /\ actor' = "model"
    /\ UNCHANGED <<shared, backend, settings, es_failed, paginate_by, pc,
                   request, run, exc, raised, used, resp, writes, object, migrate>>

\* ElasticsearchFilterBackend.filter_queryset(request, queryset, view) for list,
\* on the queryset get_queryset gave.
FilterQueryset ==
    /\ ~query.done
    /\ query' = [query EXCEPT
                   !.done = TRUE,
                   !.q = list_query(query.params, query.view,
                                    es_search(query.meta_ordering))]
    /\ actor' = "model"
    /\ UNCHANGED <<shared, backend, settings, es_failed, paginate_by, pc,
                   request, run, exc, raised, used, resp, writes, object, migrate>>

HandlerStep(h) ==
    \/ \E p \in BOOLEAN : Construct(h, p)
    \/ \E rq \in Requests : Dispatch(h, rq)
    \/ ListQueryset(h)
    \/ ListPage(h)
    \/ \E facets, suggestions \in BOOLEAN : ListFacets(h, facets, suggestions)
    \/ GetObject(h)
    \/ Serialize(h)
    \/ Perform(h)
    \/ Signal(h)
    \/ Commit(h)
    \/ Except(h)
    \/ Finish(h)

ModelStep(c) ==
    \/ \E i \in Ids, f \in BOOLEAN : ModelSave(c, i, f)
    \/ \E i \in Ids, f \in BOOLEAN : ModelDelete(c, i, f)
    \/ ModelSignal(c)
    \/ ModelCommit(c)

EnvStep == \E b \in BackendStates : BackendChange(b)

\* The whole system: every handler instance, direct model calls and the
\* backend.  The specifications below are the parts of it that are checked.
Next ==
    \/ \E h \in Handlers : HandlerStep(h)
    \/ \E c \in Callers : ModelStep(c)
    \/ EnvStep

Spec == Init /\ [][Next]_vars

\* One handler instance serving requests while the backend changes.
InitOne == Init /\ paginate_by["h2"] = FALSE

NextOne ==
    \/ HandlerStep("h1")
    \/ EnvStep

SpecOne == InitOne /\ [][NextOne]_vars

\* The same in debug mode, with the handler's thread always getting to run:
\* dispatch is synchronous code, each of its steps is taken once it is reached.
InitOneFair == InitOne /\ DEBUG

SpecOneFair == InitOneFair /\ [][NextOne]_vars /\ WF_vars(HandlerStep("h1"))

\* Direct save()/delete() calls on records, one after the other, no handler
\* running.
NextModel ==
    \/ ModelStep("m1")
    \/ EnvStep

SpecModel == InitOne /\ [][NextModel]_vars

\* Direct save()/delete() calls by two callers at once, with auto-indexing on,
\* the backend available throughout, and the index in step with the store at
\* the start.
InitSync == InitOne /\ AUTO_INDEX /\ backend = "up" /\ index = store

NextSync == \E c \in Callers : ModelStep(c)

SpecSync == InitSync /\ [][NextSync]_vars

\* Two handler instances serving list and retrieve requests concurrently,
\* with the index in step with the store at the start.
ReadRequests == {rq \in Requests : rq.action \in {"list", "retrieve"}}

InitTwo == Init /\ DEBUG /\ AUTO_INDEX /\ index = store

ReadStep(h) ==
    \/ \E p \in BOOLEAN : Construct(h, p)
    \/ \E rq \in ReadRequests : Dispatch(h, rq)
    \/ ListQueryset(h)
    \/ ListPage(h)
    \/ \E facets, suggestions \in BOOLEAN : ListFacets(h, facets, suggestions)
    \/ GetObject(h)
    \/ Serialize(h)
    \/ Except(h)
    \/ Finish(h)

NextTwo ==
    \/ \E h \in Handlers : ReadStep(h)
    \/ EnvStep

SpecTwo == InitTwo /\ [][NextTwo]_vars

\* Migration-complete events under every framework version, nothing else
\* running.
Quiet ==
    /\ store = {}
    /\ index = {}
    /\ backend = "up"
    /\ ~DEBUG
    /\ paginate_by = [h \in Handlers |-> FALSE]

InitMigrate ==
    /\ InitBase
    /\ Quiet
    /\ migrate \in {NoMigrate(v) : v \in Versions}
    /\ query = NoQuery(NoParams, NoView, <<>>)

NextMigrate == \E c \in CreatedModels : PostMigrate(c)

SpecMigrate == InitMigrate /\ [][NextMigrate]_vars

\* List requests translated into index queries, for every view configuration.
InitQuery ==
    /\ InitBase
    /\ Quiet
    /\ ~AUTO_INDEX
    /\ migrate = NoMigrate(<<"1", ".", "7">>)
    /\ query \in {NoQuery(NoParams, v, m) : v \in AllViews, m \in MetaOrderings}

NextQuery ==
    \/ \E p \in AllParams : ListRequest(p)
    \/ FilterQueryset

SpecQuery == InitQuery /\ [][NextQuery]_vars

-----------------------------------------------------------------------------
\* Properties.

ReadActions == {"list", "retrieve"}

\* The data sources the steps of the current request cycle have taken.
SourcesUsed(h) ==
    {used[h].qs, used[h].filt, used[h].ser, used[h].pag, used[h].facets}
        \ {"none"}

Returned(h) == pc[h] = "done"

\* C1: a list request whose first cycle raised a connectivity or transport
\* failure ends with es_failed set, a second cycle run against the store, and
\* a response with filter_status = "Failed" whose results come from the store.
C1_ListFallsBackToStore ==
    \A h \in Handlers :
        (Returned(h) /\ request[h].action = "list" /\ exc[h] # "none") =>
            /\ es_failed[h]
            /\ run[h] = 2
            /\ SourcesUsed(h) = {"store"}
            /\ resp[h].origin = "store"
            /\ resp[h].filter_status = FILTER_STATUS_MESSAGE_FAILED

\* C2: within one request cycle every data-access step takes the same data
\* source: the store once es_failed is set, the index for list and retrieve
\* while it is not.
C2_NoPartialFallback ==
    \A h \in Handlers :
        /\ Cardinality(SourcesUsed(h)) <= 1
        /\ es_failed[h] => SourcesUsed(h) \subseteq {"store"}
        /\ (~es_failed[h] /\ request[h].action \in ReadActions) =>
               SourcesUsed(h) \subseteq {"index"}

C2_Witness ==
    /\ Returned("h1")
    /\ request["h1"].action = "list"
    /\ run["h1"] = 2
    /\ used["h1"].qs = "store"
    /\ used["h1"].filt = "store"
    /\ used["h1"].pag = "store"

\* C3: es_failed is never cleared on a handler instance, and every list or
\* retrieve response the instance returns once it is set, also from a later
\* dispatch that met no failure itself, is served from the store and carries
\* filter_status = "Failed".
C3_FailedForLifetime ==
    [][\A h \in Handlers :
          /\ (es_failed[h] /\ pc'[h] # "idle") => es_failed'[h]
          /\ (es_failed[h] /\ pc[h] = "finish" /\ pc'[h] = "done"
                /\ run[h] = 1 /\ request[h].action \in ReadActions) =>
                 /\ resp'[h].origin \in {"store", "none"}
                 /\ resp'[h].filter_status = FILTER_STATUS_MESSAGE_FAILED]_vars

\* C4: a step of one handler instance leaves es_failed, the data sources and
\* the response of every other instance unchanged.
C4_NoLeakAcrossHandlers ==
    [][\A h \in Handlers :
          actor' # h =>
              /\ es_failed'[h] = es_failed[h]
              /\ used'[h] = used[h]
              /\ resp'[h] = resp[h]]_vars

C4_Witness ==
    /\ es_failed["h1"] /\ run["h1"] = 2 /\ used["h1"].qs = "store"
    /\ pc["h1"] = "page"
    /\ ~es_failed["h2"] /\ run["h2"] = 1 /\ used["h2"].qs = "index"
    /\ pc["h2"] = "page"

\* C5: a rejected-query error of the backend does not trigger fallback: the
\* cycle is not run again and the error leaves dispatch.
C5_QueryErrorNoFallback ==
    \A h \in Handlers :
        exc[h] = "RequestError" =>
            /\ run[h] = 1
            /\ pc[h] \in {"except", "raised"}

\* C6: a document missing from the index on retrieve gives a not-found
\* response of the first and only cycle: NotFoundError never reaches the
\* except clause, es_failed stays false and the store is not queried.
C6_NotFoundIsNotFallback ==
    \A h \in Handlers :
        request[h].action = "retrieve" =>
            /\ exc[h] # "NotFoundError"
            /\ raised[h] # "NotFoundError"
            /\ (pc[h] \in {"finish", "done"} /\ resp[h].status = 404
                  /\ used[h].filt = "index") =>
                   /\ run[h] = 1
                   /\ ~es_failed[h]
                   /\ SourcesUsed(h) = {"index"}

C6_Witness ==
    /\ Returned("h1")
    /\ request["h1"].action = "retrieve"
    /\ request["h1"].pk \notin index
    /\ backend = "up"
    /\ resp["h1"].status = 404
    /\ used["h1"].filt = "index"
    /\ run["h1"] = 1

\* C7: every list or retrieve response carries filter_status, "Failed" when
\* the handler has failed and "Ok" otherwise.
C7_StatusOnEveryResponse ==
    \A h \in Handlers :
        (Returned(h) /\ request[h].action \in ReadActions) =>
            /\ "filter_status" \in resp[h].keys
            /\ resp[h].filter_status =
                   IF es_failed[h] THEN FILTER_STATUS_MESSAGE_FAILED
                   ELSE FILTER_STATUS_MESSAGE_OK

\* C8: filter_fail_cause is absent outside debug mode and from a dispatch
\* that caught no failure; in debug mode the response of a dispatch that
\* caught a failure carries it, equal to str of the caught exception.
C8_FailCauseInDebugOnly ==
    \A h \in Handlers :
        Returned(h) =>
            /\ ~DEBUG => "filter_fail_cause" \notin resp[h].keys
            /\ exc[h] = "none" => "filter_fail_cause" \notin resp[h].keys
            /\ (DEBUG /\ exc[h] # "none") =>
                   /\ "filter_fail_cause" \in resp[h].keys
                   /\ resp[h].filter_fail_cause = str(exc[h])

\* C9: dispatch never propagates a connectivity or transport failure of the
\* search backend.
C9_FailureNeverPropagated ==
    \A h \in Handlers :
        ~(pc[h] = "raised" /\ isinstance(raised[h], "TransportError"))

\* C10: save() or delete() of a record flagged _is_es_deserialized raises
\* ValueError with no store write and no index operation, leaving store and
\* index as they were; a record without the flag never gets that error.
C10_NoWriteBackOfIndexRecords ==
    [][lastCall'.tick # lastCall.tick =>
          /\ lastCall'.flagged =>
                 /\ lastCall'.exc = "ValueError"
                 /\ lastCall'.writes = 0
                 /\ lastCall'.indexOps = 0
                 /\ store' = store
                 /\ index' = index
          /\ ~lastCall'.flagged => lastCall'.exc # "ValueError"]_vars

C10_Witness ==
    /\ lastCall.op = "save"
    /\ lastCall.flagged
    /\ lastCall.exc = "ValueError"
    /\ lastCall.writes = 0

\* C11: with auto-indexing on and the backend available, once the save and
\* delete calls made so far have returned the index holds a document for
\* exactly the records of the store, and every accepted call invoked its
\* index operation within the call.
C11_IndexFollowsStore ==
    /\ Quiescent => index = store
    /\ (lastCall.op # "none" /\ ~lastCall.flagged) =>
           /\ lastCall.exc = "none"
           /\ lastCall.writes = 1
           /\ lastCall.indexOps = 1

\* C11, amended: as above for every record on which no call is under way
\* and whose latest call did not run together with another call on the same
\* record: the index holds its document exactly when the store holds it.
C11_IndexFollowsStoreInSequence ==
    /\ \A i \in Ids :
           (~UnderWay(i) /\ i \notin lastCall.raced) =>
               (i \in index <=> i \in store)
    /\ (lastCall.op # "none" /\ ~lastCall.flagged) =>
           /\ lastCall.exc = "none"
           /\ lastCall.writes = 1
           /\ lastCall.indexOps = 1

C11_Witness ==
    /\ Quiescent
    /\ lastCall.raced = {1}
    /\ 1 \in index /\ 1 \notin store
    /\ lastCall.op = "delete"
    /\ lastCall.id = 2
    /\ 2 \notin store /\ 2 \notin index
    /\ lastCall.indexOps = 1

\* C13: a connectivity failure of the index operation made by the save or
\* delete hook leaves the store mutation in place: the saved record is in the
\* store, the deleted record is gone from it.
C13_HookFailureKeepsMutation ==
    (/\ Quiescent
     /\ ~lastCall.flagged
     /\ isinstance(lastCall.exc, "ConnectionError")) =>
        /\ lastCall.op = "save" => lastCall.id \in store
        /\ lastCall.op = "delete" => lastCall.id \notin store

\* C12: with auto-indexing on, a migration-complete event invokes
\* create_index on exactly the registered models that subclass EsIndexable,
\* under every framework version and with or without created_models.
C12_IndexesForAllIndexable ==
    (migrate.fired /\ AUTO_INDEX) =>
        migrate.indexes = {m \in AppModels : issubclass_EsIndexable(m)}

\* C15: the filters of the query built for a list request are the request
\* parameters named in the view's filter_fields, with their request values;
\* other parameters are dropped, and a view without filter_fields gives none.
C15_FiltersWithinAllowlist ==
    query.done =>
        LET allowed == IF query.view.filter_fields = <<>> THEN {}
                       ELSE query.view.filter_fields[1]
        IN  /\ DOMAIN query.q.filters = DOMAIN query.params \cap allowed
            /\ \A k \in DOMAIN query.q.filters :
                   query.q.filters[k] = query.params[k]

C15_Witness ==
    /\ query.done
    /\ query.view.filter_fields = <<{"status"}>>
    /\ {"status", "secret"} \subseteq DOMAIN query.params
    /\ DOMAIN query.q.filters = {"status"}
    /\ query.q.filters["status"] = <<"active">>

\* C16: the ordering of the query is the request's ordering when it gives
\* one, else the view's default when it declares one, else the model's
\* default, and is omitted only when none of the three is declared.
C16_OrderingPrecedence ==
    query.done =>
        LET requested == IF "ordering" \in DOMAIN query.params
                         THEN SelectSeq(query.params["ordering"],
                                        LAMBDA t : t # ",")
                         ELSE <<>>
            declared  == IF query.view.ordering = <<>> THEN <<>>
                         ELSE query.view.ordering[1]
        IN  query.q.ordering =
                IF requested # <<>> THEN requested
                ELSE IF declared # <<>> THEN declared
                ELSE query.meta_ordering

C16_Witness ==
    /\ query.done
    /\ "ordering" \in DOMAIN query.params
    /\ query.params["ordering"] = <<"-created">>
    /\ query.view.ordering = << <<"name">> >>
    /\ query.meta_ordering = <<"id">>
    /\ query.q.ordering = <<"-created">>

\* C14: with ELASTICSEARCH_AUTO_INDEX off, no save, delete or migration
\* event makes an index operation, and every save or delete that can be made
\* leaves the store as the same call does with the toggle on.
C14_ToggleLeavesStoreAlone ==
    /\ ~AUTO_INDEX => lastCall.indexOps = 0
    /\ post_migrate(FALSE, migrate.version, AppModels,
                    migrate.created_models) = {}
    /\ \A id \in Ids, flagged \in BOOLEAN :
           LET instance == Instance(id, flagged)
           IN  /\ save(instance, store, index, backend, FALSE).indexOps = 0
               /\ delete(instance, store, index, backend, FALSE).indexOps = 0
               /\ save(instance, store, index, backend, FALSE).store
                      = save(instance, store, index, backend, TRUE).store
               /\ delete(instance, store, index, backend, FALSE).store
                      = delete(instance, store, index, backend, TRUE).store

\* C18: a dispatch whose first cycle raised a connectivity or transport
\* failure ran the whole cycle a second time, so a create or update whose
\* save hook failed after the store write has written the store twice by the
\* time dispatch ends.
C18_RerunRepeatsStoreWrite ==
    \A h \in Handlers :
        (pc[h] \in {"done", "raised"} /\ isinstance(exc[h], "TransportError")) =>
            /\ run[h] = 2
            /\ request[h].action \in {"create", "update"} => writes[h] = 2

C18_Witness ==
    /\ pc["h1"] = "done"
    /\ request["h1"].action = "create"
    /\ exc["h1"] = "ConnectionError"
    /\ writes["h1"] = 2
    /\ Cardinality(store) >= 2
    /\ resp["h1"].status = 201

\* C19: one dispatch runs the request cycle once when the first run raises
\* no connectivity or transport failure and twice when it does, never a
\* third time, and it always ends: with a response, or with the error the
\* second run raised.
C19_BoundedRetry ==
    /\ [](\A h \in Handlers :
            /\ run[h] \in 0..2
            /\ Busy(h) => run[h] \in 1..2
            /\ pc[h] \in {"done", "raised"} =>
                 /\ run[h] = IF isinstance(exc[h], "TransportError")
                             THEN 2 ELSE 1
                 /\ pc[h] = "done" => resp[h] # NoResp /\ raised[h] = "none"
                 /\ pc[h] = "raised" =>
                      /\ raised[h] # "none"
                      /\ run[h] = 2 \/ raised[h] = exc[h])
    /\ \A h \in Handlers : Busy(h) ~> ~Busy(h)

C19_Witness ==
    /\ pc["h1"] = "raised"
    /\ run["h1"] = 2
    /\ exc["h1"] = "ConnectionError"
    /\ raised["h1"] = "ConnectionError"

\* C20: for every action, a response returned by dispatch that
\* contains filter_fail_cause also contains filter_status = "Failed".
C20_CauseImpliesFailedStatus ==
    \A h \in Handlers :
        (Returned(h) /\ "filter_fail_cause" \in resp[h].keys) =>
            /\ "filter_status" \in resp[h].keys
            /\ resp[h].filter_status = FILTER_STATUS_MESSAGE_FAILED

====
